---- MODULE Spec2Model ----
(***************************************************************************)
(* Podcast artwork generator (src/server.js): module start-up, the retry   *)
(* helper, generateImageBuffer, uploadToR2, the POST /generate handler and *)
(* the GET /image/:key handler.                                            *)
(*                                                                         *)
(* Strings are sequences of one-character strings, byte buffers are        *)
(* sequences of integers 0..255, JavaScript values are records [t, s].     *)
(* An Error object is represented by its message.                          *)
(***************************************************************************)
EXTENDS Integers, Sequences, FiniteSets, TLC

VARIABLES
    server,              \* "loading" | "listening" | "crashed" (module evaluation, lines 18-50, 175)
    warnings,            \* console.warn calls made by the start-up checks (lines 30-35)
    R2_PUBLIC_BASE_URL,  \* the value destructured from process.env (line 26)
    clock,               \* Date.now()
    workload,            \* the requests the clients of this run send
    pc,                  \* per request: position of the /generate handler
    body,                \* per request: { sessionId, prompt } as destructured (line 132)
    frame,               \* per request: the locals of the running retry() call
    opCalls,             \* per request: invocations of the retried operation started so far
    opLog,               \* per request: outcomes of the retried operation, in order
    timers,              \* per request: the durations passed to sleep(), in order
    fetches,             \* per request: the axios.get calls, in order
    buffer,              \* per request: the Buffer returned by generateImageBuffer
    safeSession,         \* per request: the results of the sanitizing replace (line 143), in order
    filename,            \* per request: the object key built at line 144
    puts,                \* per request: the PutObjectCommands sent to the storage client
    responses,           \* per request: the HTTP responses written
    times,               \* per request: Date.now() on arrival and at line 144 (0: not yet)
    images               \* the GET /image/:key requests handled: key and response

vars == <<server, warnings, R2_PUBLIC_BASE_URL, clock, workload, pc, body, frame,
          opCalls, opLog, timers, fetches, buffer, safeSession, filename, puts,
          responses, times, images>>

----------------------------------------------------------------------------
(* Bounds *)

MaxAttempts == 3     \* largest `attempts` argument tried on retry()
FirstClock == 9      \* Date.now() when the process starts
MaxClock == 11       \* Date.now() ranges over FirstClock..MaxClock
MaxLen == 3          \* longest session identifier enumerated for sanitization
MaxImageGets == 2    \* GET /image/:key requests handled in one run

Reqs == {"r1", "r2"}

----------------------------------------------------------------------------
(* JavaScript values and strings *)

Undefined == [t |-> "undefined", s |-> <<>>]
Str(s) == [t |-> "string", s |-> s]
Num(digits) == [t |-> "number", s |-> digits]
EmptyArray == [t |-> "array", s |-> <<>>]

\* ToBoolean: undefined, "" and 0 are falsy, every array is truthy.
Truthy(v) ==
    CASE v.t = "undefined" -> FALSE
      [] v.t = "string" -> v.s # <<>>
      [] v.t = "number" -> v.s # <<"0">>
      [] OTHER -> TRUE

\* String(v): String(undefined) is "undefined", String([]) is "".
String(v) ==
    IF v.t = "undefined" THEN <<"u", "n", "d", "e", "f", "i", "n", "e", "d">> ELSE v.s

Lower == {"a","b","c","d","e","f","g","h","i","j","k","l","m",
          "n","o","p","q","r","s","t","u","v","w","x","y","z"}
Upper == {"A","B","C","D","E","F","G","H","I","J","K","L","M",
          "N","O","P","Q","R","S","T","U","V","W","X","Y","Z"}
Digit == {"0","1","2","3","4","5","6","7","8","9"}

\* The complement of the character class [^a-zA-Z0-9-_] of line 143.
SafeChars == Lower \cup Upper \cup Digit \cup {"-", "_"}

SanitizeFirstOnlyChar(s, k) ==
    IF s[k] \notin SafeChars /\ (\A j \in 1..(k - 1) : s[j] \in SafeChars) THEN "_" ELSE s[k]

\* A replace without the g flag: only the first match is replaced.
SanitizeFirstOnly(s) == [k \in 1..Len(s) |-> SanitizeFirstOnlyChar(s, k)]

SanitizeChar(c) == IF c \in SafeChars THEN c ELSE "_"

\* s.replace(/[^a-zA-Z0-9-_]/g, "_")
Sanitize(s) == [k \in 1..Len(s) |-> SanitizeChar(s[k])]

DigitChars == <<"0","1","2","3","4","5","6","7","8","9">>

RECURSIVE Digits(_)
\* The decimal digits of a non-negative integer, as a template literal prints it.
Digits(n) == IF n < 10 THEN <<DigitChars[n + 1]>> ELSE Digits(n \div 10) \o <<DigitChars[(n % 10) + 1]>>

\* encodeURIComponent leaves A-Z a-z 0-9 - _ . ! ~ * ' ( ) alone and
\* percent-encodes every other character (ASCII shown; %HH of its code).
UriUnreserved == Lower \cup Upper \cup Digit \cup {"-", "_", ".", "!", "~", "*", "'", "(", ")"}

PercentCode(c) ==
    CASE c = "/" -> <<"%", "2", "F">>
      [] c = " " -> <<"%", "2", "0">>
      [] c = ":" -> <<"%", "3", "A">>
      [] c = "?" -> <<"%", "3", "F">>
      [] c = "#" -> <<"%", "2", "3">>
      [] c = "%" -> <<"%", "2", "5">>
      [] OTHER -> <<"%", "3", "D">>

RECURSIVE encodeURIComponent(_)
encodeURIComponent(s) ==
    IF s = <<>> THEN <<>>
    ELSE (IF Head(s) \in UriUnreserved THEN <<Head(s)>> ELSE PercentCode(Head(s)))
         \o encodeURIComponent(Tail(s))

\* base.replace(/\/$/, ""): one trailing slash removed.
StripTrailingSlash(s) ==
    IF Len(s) > 0 /\ s[Len(s)] = "/" THEN SubSeq(s, 1, Len(s) - 1) ELSE s

----------------------------------------------------------------------------
(* Buffer.from(b64, "base64") *)

B64Alphabet ==
    <<"A","B","C","D","E","F","G","H","I","J","K","L","M","N","O","P",
      "Q","R","S","T","U","V","W","X","Y","Z","a","b","c","d","e","f",
      "g","h","i","j","k","l","m","n","o","p","q","r","s","t","u","v",
      "w","x","y","z","0","1","2","3","4","5","6","7","8","9","+","/">>

B64Val(c) == (CHOOSE k \in 1..Len(B64Alphabet) : B64Alphabet[k] = c) - 1

IsB64Char(c) == \E k \in 1..Len(B64Alphabet) : B64Alphabet[k] = c

RECURSIVE B64Symbols(_)
\* The 6-bit symbols of the text: decoding stops at the first "=" and skips
\* every character outside the alphabet.
B64Symbols(s) ==
    IF s = <<>> \/ Head(s) = "=" THEN <<>>
    ELSE (IF IsB64Char(Head(s)) THEN <<B64Val(Head(s))>> ELSE <<>>) \o B64Symbols(Tail(s))

RECURSIVE B64Bytes(_)
\* Four symbols give three bytes; a tail of three gives two, of two gives one.
B64Bytes(q) ==
    CASE Len(q) >= 4 ->
           <<q[1] * 4 + q[2] \div 16,
             (q[2] % 16) * 16 + q[3] \div 4,
             (q[3] % 4) * 64 + q[4]>> \o B64Bytes(SubSeq(q, 5, Len(q)))
      [] Len(q) = 3 -> <<q[1] * 4 + q[2] \div 16, (q[2] % 16) * 16 + q[3] \div 4>>
      [] Len(q) = 2 -> <<q[1] * 4 + q[2] \div 16>>
      [] OTHER -> <<>>

BufferFromBase64(s) == B64Bytes(B64Symbols(s))

----------------------------------------------------------------------------
(* retry(fn, attempts, backoffMs), lines 57-70 *)

NoError == "undefined"      \* `let lastErr;` before any assignment

\* A factor that grows by one per attempt instead of doubling.
Pow2Linear(i) == i + 1

RECURSIVE Pow2(_)
Pow2(i) == IF i = 0 THEN 1 ELSE 2 * Pow2(i - 1)

NoValue == [present |-> FALSE, hasData |-> FALSE, data |-> <<>>]

\* A loop test `i <= attempts`.
RetryEnterOffByOne(attempts, backoffMs, i, lastErr) ==
    [attempts |-> attempts, backoffMs |-> backoffMs, i |-> i, lastErr |-> lastErr,
     state |-> IF i <= attempts THEN "calling" ELSE "thrown",
     sleepMs |-> 0, result |-> NoValue,
     error |-> IF i <= attempts THEN NoError ELSE lastErr]

\* Entering the loop (or falling through it when attempts is 0): the locals of
\* the call and what the call is waiting for.
RetryEnter(attempts, backoffMs, i, lastErr) ==
    [attempts |-> attempts, backoffMs |-> backoffMs, i |-> i, lastErr |-> lastErr,
     state |-> IF i < attempts THEN "calling" ELSE "thrown",
     sleepMs |-> 0, result |-> NoValue,
     error |-> IF i < attempts THEN NoError ELSE lastErr]

RetryStart(attempts, backoffMs) == RetryEnter(attempts, backoffMs, 0, NoError)

\* `return await fn(i)` resolved.
RetryFnResolved(f, value) == [f EXCEPT !.state = "returned", !.result = value]

\* A catch block whose sleep never resolves.
RetryFnRejectedNoWake(f, err) ==
    [f EXCEPT !.lastErr = err, !.state = "waiting", !.sleepMs = f.backoffMs * Pow2(f.i)]

\* A catch block whose delay does not grow with the attempt number.
RetryFnRejectedFlat(f, err) ==
    [f EXCEPT !.lastErr = err, !.state = "sleeping", !.sleepMs = f.backoffMs]

\* The catch block: remember the error, compute the delay, sleep.
RetryFnRejected(f, err) ==
    [f EXCEPT !.lastErr = err, !.state = "sleeping", !.sleepMs = f.backoffMs * Pow2(f.i)]

\* The timer fired: i++ and the loop test, then the next call or `throw lastErr`.
RetrySleepResolved(f) == RetryEnter(f.attempts, f.backoffMs, f.i + 1, f.lastErr)

IdleFrame == [attempts |-> 0, backoffMs |-> 0, i |-> 0, lastErr |-> NoError,
              state |-> "idle", sleepMs |-> 0, result |-> NoValue, error |-> NoError]

----------------------------------------------------------------------------
(* Inputs: environments, request bodies, collaborator results *)

Unbound == [t |-> "unbound", s |-> <<>>]     \* an identifier with no binding

ConfigValues == {Undefined, Str(<<>>), Str(<<"x">>)}

PublicBaseValues == {Undefined, Str(<<>>), Str(<<"b">>), Str(<<"b", "/">>)}

Envs == [OPENAI_API_KEY : ConfigValues, R2_ACCESS_KEY : ConfigValues,
         R2_SECRET_KEY : ConfigValues, R2_BUCKET_NAME : ConfigValues,
         R2_ENDPOINT : ConfigValues, R2_PUBLIC_BASE_URL : PublicBaseValues]

\* What the global object holds for the two names line 33 reads that the
\* module never declares.
GlobalScopes == [R2_ACCESS_KEY_ID : {Unbound, Undefined, Str(<<"x">>)},
                 R2_SECRET_ACCESS_KEY : {Unbound, Undefined, Str(<<"x">>)}]

SessionIds == {Undefined, Str(<<>>), Num(<<"0">>), Num(<<"7">>), EmptyArray,
               Str(<<"s", "1">>), Str(<<"a", "/", "!">>)}

Prompts == {Undefined, Str(<<>>), Str(<<"c", "a", "t">>)}

\* req.body: absent, or an object with the two fields possibly missing.
Bodies == {[hasBody |-> FALSE, sessionId |-> Undefined, prompt |-> Undefined]}
          \cup [hasBody : {TRUE}, sessionId : SessionIds, prompt : Prompts]

Entry(b, u) == [b64_json |-> b, url |-> u]

PayloadAB == Str(<<"Q", "U", "I", "=">>)       \* base64 of the bytes 65 66
PayloadC == Str(<<"Q", "w", "=", "=">>)        \* base64 of the byte 67
UrlU == Str(<<"u">>)

Response(data) == [present |-> TRUE, hasData |-> TRUE, data |-> data]

ProviderResponses ==
    {NoValue,
     [present |-> TRUE, hasData |-> FALSE, data |-> <<>>],
     Response(<<>>),
     Response(<<Entry(PayloadAB, Undefined)>>),
     Response(<<Entry(Undefined, UrlU)>>),
     Response(<<Entry(PayloadAB, UrlU)>>),
     Response(<<Entry(Str(<<>>), UrlU)>>),
     Response(<<Entry(Undefined, Undefined)>>),
     Response(<<Entry(Undefined, UrlU), Entry(PayloadC, Undefined)>>),
     Response(<<Entry(PayloadC, Undefined), Entry(Undefined, Undefined)>>)}

ProviderErrors == {"rate limited", "server error"}

FetchedBodies == {<<137, 80>>, <<>>}

FetchErrors == {"socket hang up"}

PutErrors == {"access denied"}

Backoffs == {500, 700}

----------------------------------------------------------------------------
(* Module evaluation, lines 18-50 and 175-177 *)

WarnOpenAI == "WARNING: OPENAI_API_KEY not set. /generate will fail without it."
WarnR2 == "WARNING: R2 environment variables are not fully configured. Uploads will fail."

RECURSIVE AnyFalsy(_)
\* `!a || !b || ...` evaluated left to right: reading an unbound identifier
\* throws a ReferenceError, the first falsy operand decides the test.
AnyFalsy(operands) ==
    IF operands = <<>> THEN "false"
    ELSE IF Head(operands) = Unbound THEN "ReferenceError"
    ELSE IF ~Truthy(Head(operands)) THEN "true"
    ELSE AnyFalsy(Tail(operands))

R2Check(env, scope) ==
    AnyFalsy(<<scope.R2_ACCESS_KEY_ID, scope.R2_SECRET_ACCESS_KEY,
               env.R2_BUCKET_NAME, env.R2_ENDPOINT, env.R2_PUBLIC_BASE_URL>>)

\* Line 33 tests R2_ACCESS_KEY_ID and R2_SECRET_ACCESS_KEY, while lines 20-28
\* declare R2_ACCESS_KEY and R2_SECRET_KEY.  The two names of line 33 resolve
\* on the global object only: unbound there (as under plain `node server.js`)
\* the test throws; the server listens only when the host defines them.
\* The whole module body runs as one synchronous step: the two checks, then
\* route registration and app.listen.  A ReferenceError at line 33 aborts the
\* evaluation before any route exists.
Startup(env, scope) ==
    /\ server = "loading"
    /\ LET w1 == IF ~Truthy(env.OPENAI_API_KEY) THEN <<WarnOpenAI>> ELSE <<>>
           check == R2Check(env, scope)
       IN  /\ warnings' = w1 \o (IF check = "true" THEN <<WarnR2>> ELSE <<>>)
           /\ server' = IF check = "ReferenceError" THEN "crashed" ELSE "listening"
    /\ R2_PUBLIC_BASE_URL' = env.R2_PUBLIC_BASE_URL
    /\ UNCHANGED <<images, times, clock, workload, pc, body, frame, opCalls, opLog, timers, fetches,
                   buffer, safeSession, filename, puts, responses>>

\* Time passes between any two steps of the event loop.
Tick ==
    /\ clock < MaxClock
    /\ clock' = clock + 1
    /\ UNCHANGED <<images, times, server, warnings, R2_PUBLIC_BASE_URL, workload, pc, body, frame,
                   opCalls, opLog, timers, fetches, buffer, safeSession, filename,
                   puts, responses>>

----------------------------------------------------------------------------
(* generateImageBuffer, lines 79-111 *)

GenerateAttemptsFour == 3 + 1    \* one attempt more than line 89 asks for

GenerateAttempts == 3
GenerateBackoffMs == 700

ErrEmpty == "OpenAI returned empty image response."
ErrUnknown == "Unknown image format from OpenAI response."

\* The pending axios.get of line 106.
AxiosGet(url) == [url |-> url, outcome |-> "pending", data |-> <<>>, error |-> NoError]

\* A URL entry handed on without awaiting the fetch of its bytes.
NormalizeNoFetch(resp) ==
    IF ~resp.present \/ ~resp.hasData \/ Len(resp.data) = 0
    THEN [kind |-> "error", message |-> ErrEmpty, bytes |-> <<>>, url |-> <<>>]
    ELSE LET imgEntry == resp.data[1]
         IN  IF Truthy(imgEntry.b64_json)
             THEN [kind |-> "bytes", message |-> "",
                   bytes |-> BufferFromBase64(imgEntry.b64_json.s), url |-> <<>>]
             ELSE IF Truthy(imgEntry.url)
             THEN [kind |-> "bytes", message |-> "", bytes |-> <<>>, url |-> <<>>]
             ELSE [kind |-> "error", message |-> ErrUnknown, bytes |-> <<>>, url |-> <<>>]

\* The two format tests in the other order: the URL wins over the payload.
NormalizeUrlFirst(resp) ==
    IF ~resp.present \/ ~resp.hasData \/ Len(resp.data) = 0
    THEN [kind |-> "error", message |-> ErrEmpty, bytes |-> <<>>, url |-> <<>>]
    ELSE LET imgEntry == resp.data[1]
         IN  IF Truthy(imgEntry.url)
             THEN [kind |-> "fetch", message |-> "", bytes |-> <<>>, url |-> imgEntry.url.s]
             ELSE IF Truthy(imgEntry.b64_json)
             THEN [kind |-> "bytes", message |-> "",
                   bytes |-> BufferFromBase64(imgEntry.b64_json.s), url |-> <<>>]
             ELSE [kind |-> "error", message |-> ErrUnknown, bytes |-> <<>>, url |-> <<>>]

\* Lines 91-110 up to the first await: what the provider response leads to.
Normalize(resp) ==
    IF ~resp.present \/ ~resp.hasData \/ Len(resp.data) = 0
    THEN [kind |-> "error", message |-> ErrEmpty, bytes |-> <<>>, url |-> <<>>]
    ELSE LET imgEntry == resp.data[1]
         IN  IF Truthy(imgEntry.b64_json)
             THEN [kind |-> "bytes", message |-> "",
                   bytes |-> BufferFromBase64(imgEntry.b64_json.s), url |-> <<>>]
             ELSE IF Truthy(imgEntry.url)
             THEN [kind |-> "fetch", message |-> "", bytes |-> <<>>, url |-> imgEntry.url.s]
             ELSE [kind |-> "error", message |-> ErrUnknown, bytes |-> <<>>, url |-> <<>>]

----------------------------------------------------------------------------
(* POST /generate, lines 131-158, and uploadToR2, lines 114-124 *)

ErrRequired == "sessionId and prompt are required"
ErrFailed == "Failed to generate or store image"
ErrNoBase == "Cannot read properties of undefined (reading 'replace')"
NoDetails == "(absent)"

PngExt == <<".", "p", "n", "g">>

BadRequest == [status |-> 400, error |-> ErrRequired, details |-> NoDetails,
               url |-> <<>>, key |-> <<>>]

\* A 500 body that repeats the fixed text instead of the cause.
ServerErrorNoCause(message) == [status |-> 500, error |-> ErrFailed, details |-> ErrFailed,
                                url |-> <<>>, key |-> <<>>]

ServerError(message) == [status |-> 500, error |-> ErrFailed, details |-> message,
                         url |-> <<>>, key |-> <<>>]

Ok(url, key) == [status |-> 200, error |-> "", details |-> NoDetails,
                 url |-> url, key |-> key]

\* A key made of the timestamp alone.
BuildKeyNoSession(safe, now) == Digits(now) \o PngExt

\* Line 144.
BuildKey(safe, now) == safe \o <<"-">> \o Digits(now) \o PngExt

\* Line 150, for a base URL that is a string.
PublicUrl(base, key) == StripTrailingSlash(base) \o <<"/">> \o encodeURIComponent(key)

\* A command that drops the content type it was given.
PutObjectCommandUntyped(buf, key, contentType) ==
    [Key |-> key, Body |-> buf, ContentType |-> "application/octet-stream",
     outcome |-> "pending", error |-> NoError]

PutObjectCommand(buf, key, contentType) ==
    [Key |-> key, Body |-> buf, ContentType |-> contentType, outcome |-> "pending",
     error |-> NoError]

\* A failure that also ends every other request in flight.
FailAll(r, message) ==
    /\ responses' = [q \in Reqs |->
                        IF q = r \/ pc[q] \notin {"idle", "responded"}
                        THEN Append(responses[q], ServerError(message))
                        ELSE responses[q]]
    /\ pc' = [q \in Reqs |->
                 IF q = r \/ pc[q] \notin {"idle", "responded"} THEN "responded" ELSE pc[q]]

\* The catch block of the handler, lines 154-157.
Fail(r, message) ==
    /\ responses' = [responses EXCEPT ![r] = Append(@, ServerError(message))]
    /\ pc' = [pc EXCEPT ![r] = "responded"]

\* Lines 143-147, run when generateImageBuffer has returned buf: sanitize,
\* build the key from the current time, send the put.
BuildAndUpload(r, buf) ==
    LET safe == Sanitize(String(body[r].sessionId))
        key == BuildKey(safe, clock)
    IN  /\ buffer' = [buffer EXCEPT ![r] = buf]
        /\ safeSession' = [safeSession EXCEPT ![r] = <<safe>>]
        /\ filename' = [filename EXCEPT ![r] = key]
        /\ puts' = [puts EXCEPT ![r] = Append(@, PutObjectCommand(buf, key, "image/png"))]
        /\ times' = [times EXCEPT ![r].keyed = clock]
        /\ pc' = [pc EXCEPT ![r] = "uploading"]

\* Validation that forgets the prompt.
InvalidSessionOnly(sessionId, prompt) == ~Truthy(sessionId)

\* Line 134.
Invalid(sessionId, prompt) == ~Truthy(sessionId) \/ ~Truthy(prompt)

\* The request arrives: validation, then generateImageBuffer up to the first
\* provider call inside retry.
Receive(r, reqBody) ==
    /\ server = "listening"
    /\ r \in workload
    /\ pc[r] = "idle"
    /\ body' = [body EXCEPT ![r] = [sessionId |-> reqBody.sessionId, prompt |-> reqBody.prompt]]
    /\ times' = [times EXCEPT ![r].arrived = clock]
    /\ IF Invalid(reqBody.sessionId, reqBody.prompt)
       THEN /\ responses' = [responses EXCEPT ![r] = Append(@, BadRequest)]
            /\ pc' = [pc EXCEPT ![r] = "responded"]
            /\ UNCHANGED <<frame, opCalls>>
       ELSE /\ frame' = [frame EXCEPT ![r] = RetryStart(GenerateAttempts, GenerateBackoffMs)]
            /\ opCalls' = [opCalls EXCEPT ![r] = @ + 1]
            /\ pc' = [pc EXCEPT ![r] = "generating"]
            /\ UNCHANGED responses
    /\ UNCHANGED <<images, server, warnings, R2_PUBLIC_BASE_URL, clock, workload, opLog, timers,
                   fetches, buffer, safeSession, filename, puts>>

\* openai.images.generate resolved: retry returns, the response is normalized.
ProviderResolves(r, resp) ==
    /\ pc[r] = "generating"
    /\ frame[r].state = "calling"
    /\ opLog' = [opLog EXCEPT ![r] = Append(@, [ok |-> TRUE, value |-> resp, error |-> NoError])]
    /\ LET f == RetryFnResolved(frame[r], resp)
           n == Normalize(f.result)
       IN  /\ frame' = [frame EXCEPT ![r] = f]
           /\ CASE n.kind = "bytes" ->
                     /\ BuildAndUpload(r, n.bytes)
                     /\ UNCHANGED <<fetches, responses>>
                [] n.kind = "fetch" ->
                     /\ fetches' = [fetches EXCEPT ![r] = Append(@, AxiosGet(n.url))]
                     /\ pc' = [pc EXCEPT ![r] = "fetching"]
                     /\ UNCHANGED <<buffer, safeSession, filename, puts, responses, times>>
                [] OTHER ->
                     /\ Fail(r, n.message)
                     /\ UNCHANGED <<fetches, buffer, safeSession, filename, puts, times>>
    /\ UNCHANGED <<images, server, warnings, R2_PUBLIC_BASE_URL, clock, workload, body, opCalls,
                   timers>>

\* openai.images.generate rejected: the catch block of retry starts a sleep.
ProviderRejects(r, err) ==
    /\ pc[r] = "generating"
    /\ frame[r].state = "calling"
    /\ opLog' = [opLog EXCEPT ![r] = Append(@, [ok |-> FALSE, value |-> NoValue, error |-> err])]
    /\ LET f == RetryFnRejected(frame[r], err)
       IN  /\ frame' = [frame EXCEPT ![r] = f]
           /\ timers' = [timers EXCEPT ![r] = Append(@, f.sleepMs)]
    /\ UNCHANGED <<images, times, server, warnings, R2_PUBLIC_BASE_URL,
                   clock, workload, pc, body, opCalls,
                   fetches, buffer, safeSession, filename, puts, responses>>

\* The backoff timer fired: the next provider call, or retry throws lastErr
\* and the handler answers 500.
SleepResolves(r) ==
    /\ pc[r] = "generating"
    /\ frame[r].state = "sleeping"
    /\ LET f == RetrySleepResolved(frame[r])
       IN  /\ frame' = [frame EXCEPT ![r] = f]
           /\ IF f.state = "calling"
              THEN /\ opCalls' = [opCalls EXCEPT ![r] = @ + 1]
                   /\ UNCHANGED <<pc, responses>>
              ELSE /\ Fail(r, f.error)
                   /\ UNCHANGED opCalls
    /\ UNCHANGED <<images, times, server, warnings, R2_PUBLIC_BASE_URL,
                   clock, workload, body, opLog, timers,
                   fetches, buffer, safeSession, filename, puts>>

\* axios.get resolved: Buffer.from(imageResp.data), then the upload starts.
FetchResolves(r, data) ==
    /\ pc[r] = "fetching"
    /\ fetches' = [fetches EXCEPT ![r][Len(fetches[r])] = [@ EXCEPT !.outcome = "ok", !.data = data]]
    /\ BuildAndUpload(r, data)
    /\ UNCHANGED <<images, server, warnings, R2_PUBLIC_BASE_URL, clock, workload, body, frame,
                   opCalls, opLog, timers, responses>>

FetchRejects(r, err) ==
    /\ pc[r] = "fetching"
    /\ fetches' = [fetches EXCEPT ![r][Len(fetches[r])] =
                    [@ EXCEPT !.outcome = "failed", !.error = err]]
    /\ Fail(r, err)
    /\ UNCHANGED <<images, times, server, warnings, R2_PUBLIC_BASE_URL,
                   clock, workload, body, frame,
                   opCalls, opLog, timers, buffer, safeSession, filename, puts>>

MarkPut(r, outcome, err) ==
    [puts EXCEPT ![r][Len(puts[r])] = [@ EXCEPT !.outcome = outcome, !.error = err]]

\* s3.send resolved: the public URL is built (a TypeError when the base URL
\* is undefined) and the response written.
PutResolves(r) ==
    /\ pc[r] = "uploading"
    /\ puts' = MarkPut(r, "stored", NoError)
    /\ IF R2_PUBLIC_BASE_URL.t = "undefined"
       THEN Fail(r, ErrNoBase)
       ELSE /\ responses' = [responses EXCEPT ![r] =
                   Append(@, Ok(PublicUrl(R2_PUBLIC_BASE_URL.s, filename[r]), filename[r]))]
            /\ pc' = [pc EXCEPT ![r] = "responded"]
    /\ UNCHANGED <<images, times, server, warnings, R2_PUBLIC_BASE_URL,
                   clock, workload, body, frame,
                   opCalls, opLog, timers, fetches, buffer, safeSession, filename>>

PutRejects(r, err) ==
    /\ pc[r] = "uploading"
    /\ puts' = MarkPut(r, "failed", err)
    /\ Fail(r, err)
    /\ UNCHANGED <<images, times, server, warnings, R2_PUBLIC_BASE_URL,
                   clock, workload, body, frame,
                   opCalls, opLog, timers, fetches, buffer, safeSession, filename>>

----------------------------------------------------------------------------
(* The server *)

NoBody == [sessionId |-> Undefined, prompt |-> Undefined]

NoTimes == [arrived |-> 0, keyed |-> 0]

Init ==
    /\ server = "loading"
    /\ warnings = <<>>
    /\ R2_PUBLIC_BASE_URL = Undefined
    /\ clock = FirstClock
    /\ workload = {"r1"}
    /\ pc = [r \in Reqs |-> "idle"]
    /\ body = [r \in Reqs |-> NoBody]
    /\ frame = [r \in Reqs |-> IdleFrame]
    /\ opCalls = [r \in Reqs |-> 0]
    /\ opLog = [r \in Reqs |-> <<>>]
    /\ timers = [r \in Reqs |-> <<>>]
    /\ fetches = [r \in Reqs |-> <<>>]
    /\ buffer = [r \in Reqs |-> <<>>]
    /\ safeSession = [r \in Reqs |-> <<>>]
    /\ filename = [r \in Reqs |-> <<>>]
    /\ puts = [r \in Reqs |-> <<>>]
    /\ responses = [r \in Reqs |-> <<>>]
    /\ times = [r \in Reqs |-> NoTimes]
    /\ images = <<>>

Next ==
    \/ /\ server = "loading"
       /\ \E env \in Envs, scope \in GlobalScopes : Startup(env, scope)
    \/ Tick
    \/ \E r \in Reqs, reqBody \in Bodies : Receive(r, reqBody)
    \/ \E r \in Reqs, resp \in ProviderResponses : ProviderResolves(r, resp)
    \/ \E r \in Reqs, err \in ProviderErrors : ProviderRejects(r, err)
    \/ \E r \in Reqs : SleepResolves(r)
    \/ \E r \in Reqs, data \in FetchedBodies : FetchResolves(r, data)
    \/ \E r \in Reqs, err \in FetchErrors : FetchRejects(r, err)
    \/ \E r \in Reqs : PutResolves(r)
    \/ \E r \in Reqs, err \in PutErrors : PutRejects(r, err)

Spec == Init /\ [][Next]_vars

\* Every pending provider call, timer, fetch and put eventually settles.
ProviderSettles(r) ==
    \/ \E resp \in ProviderResponses : ProviderResolves(r, resp)
    \/ \E err \in ProviderErrors : ProviderRejects(r, err)

FetchSettles(r) ==
    \/ \E data \in FetchedBodies : FetchResolves(r, data)
    \/ \E err \in FetchErrors : FetchRejects(r, err)

PutSettles(r) ==
    \/ PutResolves(r)
    \/ \E err \in PutErrors : PutRejects(r, err)

Settling ==
    \A r \in Reqs :
        /\ WF_vars(ProviderSettles(r))
        /\ WF_vars(SleepResolves(r))
        /\ WF_vars(FetchSettles(r))
        /\ WF_vars(PutSettles(r))

SpecLive == Init /\ [][Next]_vars /\ Settling

----------------------------------------------------------------------------
(* retry() on its own: any attempts and backoffMs, any operation *)

Idle(r) ==
    /\ pc[r] = "idle"
    /\ body[r] = NoBody
    /\ frame[r] = IdleFrame
    /\ opCalls[r] = 0
    /\ opLog[r] = <<>>
    /\ timers[r] = <<>>
    /\ fetches[r] = <<>>
    /\ buffer[r] = <<>>
    /\ safeSession[r] = <<>>
    /\ filename[r] = <<>>
    /\ puts[r] = <<>>
    /\ responses[r] = <<>>
    /\ times[r] = NoTimes

\* retry(fn, attempts, backoffMs) has been called and has run up to its
\* first await (or to its throw, when attempts is 0).
InitRetry ==
    /\ server = "loading"
    /\ warnings = <<>>
    /\ R2_PUBLIC_BASE_URL = Undefined
    /\ clock = FirstClock
    /\ workload = {}
    /\ \E attempts \in 0..MaxAttempts, backoffMs \in Backoffs :
        LET f == RetryStart(attempts, backoffMs)
        IN  /\ frame = [r \in Reqs |-> IF r = "r1" THEN f ELSE IdleFrame]
            /\ opCalls = [r \in Reqs |-> IF r = "r1" /\ f.state = "calling" THEN 1 ELSE 0]
    /\ pc = [r \in Reqs |-> IF r = "r1" THEN "retrying" ELSE "idle"]
    /\ body = [r \in Reqs |-> NoBody]
    /\ opLog = [r \in Reqs |-> <<>>]
    /\ timers = [r \in Reqs |-> <<>>]
    /\ fetches = [r \in Reqs |-> <<>>]
    /\ buffer = [r \in Reqs |-> <<>>]
    /\ safeSession = [r \in Reqs |-> <<>>]
    /\ filename = [r \in Reqs |-> <<>>]
    /\ puts = [r \in Reqs |-> <<>>]
    /\ responses = [r \in Reqs |-> <<>>]
    /\ times = [r \in Reqs |-> NoTimes]
    /\ images = <<>>

OperationResolves(r, value) ==
    /\ pc[r] = "retrying"
    /\ frame[r].state = "calling"
    /\ opLog' = [opLog EXCEPT ![r] = Append(@, [ok |-> TRUE, value |-> value, error |-> NoError])]
    /\ frame' = [frame EXCEPT ![r] = RetryFnResolved(@, value)]
    /\ UNCHANGED <<images, times, server, warnings, R2_PUBLIC_BASE_URL,
                   clock, workload, pc, body, opCalls,
                   timers, fetches, buffer, safeSession, filename, puts, responses>>

OperationRejects(r, err) ==
    /\ pc[r] = "retrying"
    /\ frame[r].state = "calling"
    /\ opLog' = [opLog EXCEPT ![r] = Append(@, [ok |-> FALSE, value |-> NoValue, error |-> err])]
    /\ LET f == RetryFnRejected(frame[r], err)
       IN  /\ frame' = [frame EXCEPT ![r] = f]
           /\ timers' = [timers EXCEPT ![r] = Append(@, f.sleepMs)]
    /\ UNCHANGED <<images, times, server, warnings, R2_PUBLIC_BASE_URL,
                   clock, workload, pc, body, opCalls,
                   fetches, buffer, safeSession, filename, puts, responses>>

TimerFires(r) ==
    /\ pc[r] = "retrying"
    /\ frame[r].state = "sleeping"
    /\ LET f == RetrySleepResolved(frame[r])
       IN  /\ frame' = [frame EXCEPT ![r] = f]
           /\ opCalls' = [opCalls EXCEPT ![r] = IF f.state = "calling" THEN @ + 1 ELSE @]
    /\ UNCHANGED <<images, times, server, warnings, R2_PUBLIC_BASE_URL,
                   clock, workload, pc, body, opLog,
                   timers, fetches, buffer, safeSession, filename, puts, responses>>

NextRetry ==
    \/ \E r \in Reqs, value \in ProviderResponses : OperationResolves(r, value)
    \/ \E r \in Reqs, err \in ProviderErrors : OperationRejects(r, err)
    \/ \E r \in Reqs : TimerFires(r)

SpecRetry == InitRetry /\ [][NextRetry]_vars

----------------------------------------------------------------------------
(* The sanitizing replace of line 143 on its own *)

SampleChars == {"a", "Z", "9", "_", "-", "/", "!", " "}

SampleStrings == UNION {[1..n -> SampleChars] : n \in 0..MaxLen}

AbcDef == <<"a", "b", "c", "/", "d", "e", "f", "!">>

KeyInputs == SessionIds \cup {Str(s) : s \in SampleStrings \cup {AbcDef}}

InitKey ==
    /\ server = "loading"
    /\ warnings = <<>>
    /\ R2_PUBLIC_BASE_URL = Undefined
    /\ clock = FirstClock
    /\ workload = {}
    /\ pc = [r \in Reqs |-> IF r = "r1" THEN "sanitizing" ELSE "idle"]
    /\ \E sessionId \in KeyInputs :
        body = [r \in Reqs |-> IF r = "r1" THEN [sessionId |-> sessionId, prompt |-> Undefined]
                                           ELSE NoBody]
    /\ frame = [r \in Reqs |-> IdleFrame]
    /\ opCalls = [r \in Reqs |-> 0]
    /\ opLog = [r \in Reqs |-> <<>>]
    /\ timers = [r \in Reqs |-> <<>>]
    /\ fetches = [r \in Reqs |-> <<>>]
    /\ buffer = [r \in Reqs |-> <<>>]
    /\ safeSession = [r \in Reqs |-> <<>>]
    /\ filename = [r \in Reqs |-> <<>>]
    /\ puts = [r \in Reqs |-> <<>>]
    /\ responses = [r \in Reqs |-> <<>>]
    /\ times = [r \in Reqs |-> NoTimes]
    /\ images = <<>>

\* The replace applied to String(sessionId).
SanitizeSession(r) ==
    /\ pc[r] = "sanitizing"
    /\ safeSession[r] = <<>>
    /\ safeSession' = [safeSession EXCEPT ![r] = <<Sanitize(String(body[r].sessionId))>>]
    /\ UNCHANGED <<images, times, server, warnings, R2_PUBLIC_BASE_URL,
                   clock, workload, pc, body, frame,
                   opCalls, opLog, timers, fetches, buffer, filename, puts, responses>>

\* The replace applied to its own result.
SanitizeAgain(r) ==
    /\ pc[r] = "sanitizing"
    /\ Len(safeSession[r]) = 1
    /\ safeSession' = [safeSession EXCEPT ![r] = Append(@, Sanitize(@[1]))]
    /\ UNCHANGED <<images, times, server, warnings, R2_PUBLIC_BASE_URL,
                   clock, workload, pc, body, frame,
                   opCalls, opLog, timers, fetches, buffer, filename, puts, responses>>

NextKey ==
    \/ \E r \in Reqs : SanitizeSession(r)
    \/ \E r \in Reqs : SanitizeAgain(r)

SpecKey == InitKey /\ [][NextKey]_vars

----------------------------------------------------------------------------
(* Two /generate requests in flight at once, on fewer inputs *)

ConfiguredEnvs == [OPENAI_API_KEY : {Str(<<"x">>)}, R2_ACCESS_KEY : {Str(<<"x">>)},
                   R2_SECRET_KEY : {Str(<<"x">>)}, R2_BUCKET_NAME : {Str(<<"x">>)},
                   R2_ENDPOINT : {Str(<<"x">>)},
                   R2_PUBLIC_BASE_URL : {Str(<<"b", "/">>)}]

BoundScopes == [R2_ACCESS_KEY_ID : {Str(<<"x">>)}, R2_SECRET_ACCESS_KEY : {Str(<<"x">>)}]

\* Two session ids with the same sanitized form and one with another.
ConcurrentBodies == [hasBody : {TRUE},
                     sessionId : {Str(<<"a", "/", "!">>), Str(<<"a", "_", "_">>),
                                  Str(<<"s", "1">>)},
                     prompt : {Str(<<"c", "a", "t">>)}]

ConcurrentResponses == {Response(<<Entry(PayloadAB, Undefined)>>),
                        Response(<<Entry(Undefined, UrlU)>>)}

ConcurrentErrors == {"rate limited"}

ConcurrentFetched == {<<137, 80>>}

InitTwo ==
    /\ server = "loading"
    /\ warnings = <<>>
    /\ R2_PUBLIC_BASE_URL = Undefined
    /\ clock = FirstClock
    /\ workload = Reqs
    /\ pc = [r \in Reqs |-> "idle"]
    /\ body = [r \in Reqs |-> NoBody]
    /\ frame = [r \in Reqs |-> IdleFrame]
    /\ opCalls = [r \in Reqs |-> 0]
    /\ opLog = [r \in Reqs |-> <<>>]
    /\ timers = [r \in Reqs |-> <<>>]
    /\ fetches = [r \in Reqs |-> <<>>]
    /\ buffer = [r \in Reqs |-> <<>>]
    /\ safeSession = [r \in Reqs |-> <<>>]
    /\ filename = [r \in Reqs |-> <<>>]
    /\ puts = [r \in Reqs |-> <<>>]
    /\ responses = [r \in Reqs |-> <<>>]
    /\ times = [r \in Reqs |-> NoTimes]
    /\ images = <<>>

NextTwo ==
    \/ /\ server = "loading"
       /\ \E env \in ConfiguredEnvs, scope \in BoundScopes : Startup(env, scope)
    \/ Tick
    \/ \E r \in Reqs, reqBody \in ConcurrentBodies : Receive(r, reqBody)
    \/ \E r \in Reqs, resp \in ConcurrentResponses : ProviderResolves(r, resp)
    \/ \E r \in Reqs, err \in ConcurrentErrors : ProviderRejects(r, err)
    \/ \E r \in Reqs : SleepResolves(r)
    \/ \E r \in Reqs, data \in ConcurrentFetched : FetchResolves(r, data)
    \/ \E r \in Reqs, err \in FetchErrors : FetchRejects(r, err)
    \/ \E r \in Reqs : PutResolves(r)
    \/ \E r \in Reqs, err \in PutErrors : PutRejects(r, err)

SpecTwo == InitTwo /\ [][NextTwo]_vars

----------------------------------------------------------------------------
(* GET /image/:key, lines 166-172 *)

ErrKeyRequired == "key required"
ErrInternal == "Internal Server Error"

\* req.params.key: the handler tests for a missing key, although the route
\* pattern only matches a non-empty segment.
ImageKeys == {Undefined, Str(<<"k">>), Str(<<"a", "/", "b">>),
              Str(<<"s", "1", "-", "9", ".", "p", "n", "g">>)}

\* What the handler answers: 400 without a key, otherwise the URL built as at
\* line 170.  With the base URL undefined `.replace` throws a TypeError out of
\* the synchronous handler and the framework answers 500.
ImageResponse(key) ==
    IF ~Truthy(key)
    THEN [status |-> 400, error |-> ErrKeyRequired, details |-> NoDetails,
          url |-> <<>>, key |-> <<>>]
    ELSE IF R2_PUBLIC_BASE_URL.t = "undefined"
    THEN [status |-> 500, error |-> ErrInternal, details |-> ErrNoBase,
          url |-> <<>>, key |-> <<>>]
    ELSE Ok(PublicUrl(R2_PUBLIC_BASE_URL.s, key.s), <<>>)

GetImage(key) ==
    /\ server = "listening"
    /\ Len(images) < MaxImageGets
    /\ images' = Append(images, [key |-> key, response |-> ImageResponse(key)])
    /\ UNCHANGED <<times, server, warnings, R2_PUBLIC_BASE_URL, clock, workload, pc, body,
                   frame, opCalls, opLog, timers, fetches, buffer, safeSession, filename,
                   puts, responses>>

NextImage ==
    \/ /\ server = "loading"
       /\ \E env \in Envs, scope \in GlobalScopes : Startup(env, scope)
    \/ \E key \in ImageKeys : GetImage(key)

SpecImage == Init /\ [][NextImage]_vars

----------------------------------------------------------------------------
(* Properties *)

Falsy(v) ==
    \/ v.t = "undefined"
    \/ v.t = "string" /\ v.s = <<>>
    \/ v.t = "number" /\ v.s = <<"0">>

Last(s) == s[Len(s)]

\* C1: a /generate request whose body lacks sessionId or prompt (missing,
\* empty or otherwise falsy) is answered 400 with an error field, and no
\* provider call, remote fetch or storage put is made for it.
C1_BadRequestTouchesNothing ==
    \A r \in Reqs :
        (pc[r] # "idle" /\ (Falsy(body[r].sessionId) \/ Falsy(body[r].prompt))) =>
            /\ pc[r] = "responded"
            /\ Len(responses[r]) = 1
            /\ responses[r][1].status = 400
            /\ responses[r][1].error # ""
            /\ opCalls[r] = 0
            /\ fetches[r] = <<>>
            /\ puts[r] = <<>>

\* A request with a session id but an empty or missing prompt was answered 400.
C1_Witness ==
    \E r \in Reqs :
        /\ pc[r] = "responded"
        /\ ~Falsy(body[r].sessionId)
        /\ Falsy(body[r].prompt)
        /\ responses[r][1].status = 400

\* C2: when the operation fails on its first n invocations and succeeds on the
\* next (n < attempts), it has been invoked exactly n+1 times, exactly n
\* delays were awaited, the k-th (0-indexed) lasting backoffMs * 2^k, and
\* retry returns the value of the last invocation.
C2_RetrySucceedsAfterFailures ==
    \A r \in Reqs :
        (opLog[r] # <<>> /\ Last(opLog[r]).ok) =>
            LET n == Len(opLog[r]) - 1
            IN  /\ n < frame[r].attempts
                /\ \A k \in 1..n : ~opLog[r][k].ok
                /\ opCalls[r] = n + 1
                /\ Len(timers[r]) = n
                /\ \A k \in 1..n : timers[r][k] = frame[r].backoffMs * (2 ^ (k - 1))
                /\ frame[r].state = "returned"
                /\ frame[r].result = Last(opLog[r]).value

\* retry returned after two failed attempts and two delays.
C2_Witness ==
    \E r \in Reqs :
        /\ pc[r] = "retrying"
        /\ frame[r].state = "returned"
        /\ Len(opLog[r]) = 3
        /\ Len(timers[r]) = 2

\* C3: with attempts >= 1 and an operation that always fails, the operation
\* is invoked exactly `attempts` times, one invocation at a time, and retry
\* then throws the error of the last invocation itself.
C3_RetryExhaustsWithLastError ==
    \A r \in Reqs :
        /\ opCalls[r] <= frame[r].attempts
        /\ opCalls[r] - Len(opLog[r]) \in {0, 1}
        /\ (frame[r].state = "calling") <=> (opCalls[r] = Len(opLog[r]) + 1)
        /\ (frame[r].state = "thrown" /\ frame[r].attempts >= 1) =>
              /\ opCalls[r] = frame[r].attempts
              /\ Len(opLog[r]) = frame[r].attempts
              /\ \A k \in 1..Len(opLog[r]) : ~opLog[r][k].ok
              /\ frame[r].error = Last(opLog[r]).error

\* retry threw after three failed attempts whose first and last errors differ.
C3_Witness ==
    \E r \in Reqs :
        /\ pc[r] = "retrying"
        /\ frame[r].state = "thrown"
        /\ frame[r].attempts = Len(opLog[r])
        /\ Len(opLog[r]) >= 2
        /\ opLog[r][1].error # Last(opLog[r]).error

\* C4: a delay is awaited after a failed attempt only if another attempt
\* remains, so at most attempts - 1 delays are ever awaited by one call.
C4_NoDelayAfterFinalAttempt ==
    \A r \in Reqs :
        frame[r].attempts >= 1 => Len(timers[r]) <= frame[r].attempts - 1

Succeeded(r) == responses[r] # <<>> /\ responses[r][1].status = 200

\* The first entry of the response the provider call resolved with.
FirstEntry(r) == Last(opLog[r]).value.data[1]

NoEntries(r) ==
    LET resp == Last(opLog[r]).value
    IN  ~resp.present \/ ~resp.hasData \/ resp.data = <<>>

Inline(r) == ~NoEntries(r) /\ ~Falsy(FirstEntry(r).b64_json)

UrlOnly(r) == ~NoEntries(r) /\ Falsy(FirstEntry(r).b64_json) /\ ~Falsy(FirstEntry(r).url)

Neither(r) == ~NoEntries(r) /\ Falsy(FirstEntry(r).b64_json) /\ Falsy(FirstEntry(r).url)

Answered500(r, details) ==
    /\ pc[r] = "responded"
    /\ Len(responses[r]) = 1
    /\ responses[r][1].status = 500
    /\ responses[r][1].error = ErrFailed
    /\ responses[r][1].details = details

\* C5: a /generate request that ends in 200 returns the key
\* sanitize(String(sessionId)) + "-" + timestamp digits + ".png", made of a
\* non-empty run of [A-Za-z0-9_-], a hyphen, digits and the extension; the
\* key is the one passed to the put, and url is the base URL with one
\* trailing slash removed + "/" + the URL-encoded key.
C5_KeyAndUrlOfSuccess ==
    \A r \in Reqs :
        Succeeded(r) =>
            LET key == responses[r][1].key
                url == responses[r][1].url
                sid == String(body[r].sessionId)
                n == Len(sid)
                stamp == SubSeq(key, n + 2, Len(key) - Len(PngExt))
            IN  /\ n >= 1
                /\ Len(key) >= n + 2 + Len(PngExt)
                /\ \A k \in 1..n : key[k] = (IF sid[k] \in SafeChars THEN sid[k] ELSE "_")
                /\ key[n + 1] = "-"
                /\ \E now \in FirstClock..MaxClock : stamp = Digits(now)
                /\ \A k \in 1..Len(stamp) : stamp[k] \in Digit
                /\ SubSeq(key, Len(key) - Len(PngExt) + 1, Len(key)) = PngExt
                /\ Len(puts[r]) = 1
                /\ puts[r][1].Key = key
                /\ url = StripTrailingSlash(R2_PUBLIC_BASE_URL.s) \o <<"/">>
                           \o encodeURIComponent(key)

\* C6: a /generate request that ends in 200 has exactly one recorded put,
\* whose body is the buffer obtained from the provider response (the decoded
\* payload for an inline entry, the fetched bytes otherwise), whose key is
\* the key of the response and whose content type is image/png.
C6_OnePutWithTheImage ==
    \A r \in Reqs :
        Succeeded(r) =>
            /\ Len(puts[r]) = 1
            /\ puts[r][1].outcome = "stored"
            /\ puts[r][1].Body =
                  (IF Inline(r) THEN BufferFromBase64(FirstEntry(r).b64_json.s)
                                ELSE fetches[r][1].data)
            /\ puts[r][1].Body = buffer[r]
            /\ puts[r][1].Key = responses[r][1].key
            /\ puts[r][1].ContentType = "image/png"

\* A 200 response for an inline payload whose put carries the decoded bytes.
C6_Witness ==
    \E r \in Reqs :
        /\ Succeeded(r)
        /\ Inline(r)
        /\ puts[r][1].Body = <<65, 66>>
        /\ puts[r][1].ContentType = "image/png"

\* C7: normalization looks at the first entry only and has four outcomes:
\* no entries (or no list) fails with the empty-response error; an inline
\* payload yields its base64 decoding and no fetch is made, even when a URL
\* is present too; a URL alone yields the bytes fetched from it; neither
\* field fails with the unknown-format error.
C7_NormalizeOutcomes ==
    \A r \in Reqs :
        (pc[r] \notin {"idle", "retrying"} /\ opLog[r] # <<>> /\ Last(opLog[r]).ok) =>
            /\ NoEntries(r) =>
                  /\ Answered500(r, ErrEmpty)
                  /\ fetches[r] = <<>>
                  /\ puts[r] = <<>>
            /\ Inline(r) =>
                  /\ fetches[r] = <<>>
                  /\ buffer[r] = BufferFromBase64(FirstEntry(r).b64_json.s)
                  /\ FirstEntry(r).b64_json = PayloadAB => buffer[r] = <<65, 66>>
                  /\ FirstEntry(r).b64_json = PayloadC => buffer[r] = <<67>>
                  /\ Len(puts[r]) = 1
                  /\ puts[r][1].Body = buffer[r]
            /\ UrlOnly(r) =>
                  /\ Len(fetches[r]) = 1
                  /\ fetches[r][1].url = FirstEntry(r).url.s
                  /\ fetches[r][1].outcome = "pending" => puts[r] = <<>>
                  /\ fetches[r][1].outcome = "failed" => puts[r] = <<>>
                  /\ fetches[r][1].outcome = "ok" =>
                        /\ buffer[r] = fetches[r][1].data
                        /\ Len(puts[r]) = 1
                        /\ puts[r][1].Body = fetches[r][1].data
            /\ Neither(r) =>
                  /\ Answered500(r, ErrUnknown)
                  /\ fetches[r] = <<>>
                  /\ puts[r] = <<>>

\* A first entry with both a payload and a URL was decoded without a fetch.
C7_Witness ==
    \E r \in Reqs :
        /\ opLog[r] # <<>>
        /\ Last(opLog[r]).ok
        /\ Inline(r)
        /\ ~Falsy(FirstEntry(r).url)
        /\ fetches[r] = <<>>
        /\ buffer[r] = <<65, 66>>

\* C8: sanitization replaces each character outside [A-Za-z0-9_-] by one "_"
\* and keeps every other character, so the length is preserved and
\* "abc/def!" becomes "abc_def_"; sanitizing the result again changes nothing.
C8_SanitizeCharwiseIdempotent ==
    \A r \in Reqs :
        LET sid == String(body[r].sessionId)
        IN  /\ Len(safeSession[r]) >= 1 =>
                /\ Len(safeSession[r][1]) = Len(sid)
                /\ \A k \in 1..Len(sid) :
                      safeSession[r][1][k] =
                          (IF sid[k] \in Lower \cup Upper \cup Digit \cup {"_", "-"}
                           THEN sid[k] ELSE "_")
                /\ sid = AbcDef => safeSession[r][1] = <<"a", "b", "c", "_", "d", "e", "f", "_">>
            /\ Len(safeSession[r]) >= 2 => safeSession[r][2] = safeSession[r][1]

\* "abc/def!" was sanitized to "abc_def_" and sanitized again.
C8_Witness ==
    \E r \in Reqs :
        /\ String(body[r].sessionId) = AbcDef
        /\ safeSession[r] = << <<"a", "b", "c", "_", "d", "e", "f", "_">>,
                               <<"a", "b", "c", "_", "d", "e", "f", "_">> >>

\* The message of the error that ended a validated request without a 200.
Cause(r) ==
    IF puts[r] # <<>> /\ Last(puts[r]).outcome = "failed" THEN Last(puts[r]).error
    ELSE IF puts[r] # <<>> /\ Last(puts[r]).outcome = "stored" THEN ErrNoBase
    ELSE IF fetches[r] # <<>> /\ Last(fetches[r]).outcome = "failed" THEN Last(fetches[r]).error
    ELSE IF opLog[r] = <<>> THEN NoError
    ELSE IF Last(opLog[r]).ok THEN (IF NoEntries(r) THEN ErrEmpty ELSE ErrUnknown)
    ELSE Last(opLog[r]).error

\* C9: a validated /generate request that fails later (provider exhaustion,
\* empty or unrecognized response, fetch failure, upload failure) gets
\* exactly one response: 500 with the fixed error text and details equal to
\* the message of the cause (the last attempt's error on exhaustion); no
\* request gets two responses.
C9_OneFailureResponseWithCause ==
    \A r \in Reqs :
        /\ Len(responses[r]) <= 1
        /\ (pc[r] = "responded") <=> (Len(responses[r]) = 1)
        /\ (puts[r] # <<>> /\ Last(puts[r]).outcome = "failed") => pc[r] = "responded"
        /\ (fetches[r] # <<>> /\ Last(fetches[r]).outcome = "failed") => pc[r] = "responded"
        /\ (pc[r] = "generating" /\ frame[r].state = "thrown") => FALSE
        /\ (/\ pc[r] = "responded"
            /\ ~Falsy(body[r].sessionId)
            /\ ~Falsy(body[r].prompt)
            /\ ~Succeeded(r)) => Answered500(r, Cause(r))

\* The provider failed three times with different errors and the 500 carries
\* the last one.
C9_Witness ==
    \E r \in Reqs :
        /\ pc[r] = "responded"
        /\ Len(opLog[r]) = GenerateAttempts
        /\ ~Last(opLog[r]).ok
        /\ opLog[r][1].error # Last(opLog[r]).error
        /\ responses[r][1].status = 500
        /\ responses[r][1].details = Last(opLog[r]).error

\* C10: whatever configuration values are set or unset, start-up logs at
\* most warnings and the server reaches the listening state.
C10_StartupNeverFails == server \in {"loading", "listening"}

\* C11: GET /image/:key with a non-empty key always answers 200 with url =
\* base URL (one trailing slash removed) + "/" + the URL-encoded key, with an
\* absent key answers 400, and makes no storage call and no provider call.
C11_ImageUrlAlways200 ==
    /\ \A k \in 1..Len(images) :
          LET key == images[k].key
              resp == images[k].response
          IN  /\ Falsy(key) => resp.status = 400
              /\ ~Falsy(key) =>
                    /\ resp.status = 200
                    /\ resp.url = StripTrailingSlash(R2_PUBLIC_BASE_URL.s) \o <<"/">>
                                    \o encodeURIComponent(key.s)
    /\ \A r \in Reqs : opCalls[r] = 0 /\ fetches[r] = <<>> /\ puts[r] = <<>>

ProviderSucceeded(r) == opLog[r] # <<>> /\ Last(opLog[r]).ok

BytesAvailable(r) ==
    /\ ProviderSucceeded(r)
    /\ \/ Inline(r)
       \/ UrlOnly(r) /\ fetches[r] # <<>> /\ Last(fetches[r]).outcome = "ok"

\* C12: within one /generate request the stages run in the order provider
\* invocation(s), normalization (with the optional fetch), key construction,
\* put, response: no fetch before a provider invocation succeeded and no
\* provider invocation after one, no key and no put before the image bytes
\* are there, no 200 before the put succeeded.
C12_StagesInOrder ==
    \A r \in Reqs :
        /\ opCalls[r] > 0 => times[r].arrived > 0
        /\ ProviderSucceeded(r) => opCalls[r] = Len(opLog[r])
        /\ fetches[r] # <<>> => ProviderSucceeded(r)
        /\ filename[r] # <<>> => BytesAvailable(r) /\ times[r].keyed >= times[r].arrived
        /\ puts[r] # <<>> =>
              /\ BytesAvailable(r)
              /\ filename[r] # <<>>
              /\ Last(puts[r]).Key = filename[r]
        /\ Succeeded(r) => puts[r] # <<>> /\ Last(puts[r]).outcome = "stored"
        /\ responses[r] # <<>> =>
              /\ frame[r].state \notin {"calling", "sleeping"}
              /\ fetches[r] # <<>> => Last(fetches[r]).outcome # "pending"
              /\ puts[r] # <<>> => Last(puts[r]).outcome # "pending"

\* A request went through two provider attempts, a fetch, the key, the put
\* and the 200 response.
C12_Witness ==
    \E r \in Reqs :
        /\ Succeeded(r)
        /\ Len(opLog[r]) = 2
        /\ UrlOnly(r)
        /\ Last(fetches[r]).outcome = "ok"
        /\ Last(puts[r]).outcome = "stored"

NormalizationFailed(r) ==
    /\ ProviderSucceeded(r)
    /\ \/ NoEntries(r)
       \/ Neither(r)
       \/ fetches[r] # <<>> /\ Last(fetches[r]).outcome = "failed"

UploadFailed(r) == puts[r] # <<>> /\ Last(puts[r]).outcome = "failed"

\* C13: only provider-call failures are retried: one request invokes the
\* provider at most 3 times, the fetch at most once and the put at most once,
\* and after a normalization failure (empty response, unknown format, failed
\* fetch) or an upload failure it makes no further provider call, fetch or put.
C13_OnlyProviderCallsRetried ==
    /\ [](\A r \in Reqs :
            /\ opCalls[r] <= 3
            /\ Len(fetches[r]) <= 1
            /\ Len(puts[r]) <= 1)
    /\ [][\A r \in Reqs :
            (NormalizationFailed(r) \/ UploadFailed(r)) =>
                /\ opCalls'[r] = opCalls[r]
                /\ fetches'[r] = fetches[r]
                /\ puts'[r] = puts[r]]_vars

\* The third provider attempt succeeded with a URL, the fetch failed, and the
\* request was answered.
C13_Witness ==
    \E r \in Reqs :
        /\ opCalls[r] = 3
        /\ ProviderSucceeded(r)
        /\ fetches[r] # <<>>
        /\ Last(fetches[r]).outcome = "failed"
        /\ pc[r] = "responded"
        /\ puts[r] = <<>>

Uploaded(r) == puts[r] # <<>>

SafeId(r) == [k \in 1..Len(String(body[r].sessionId)) |->
                 IF String(body[r].sessionId)[k] \in SafeChars
                 THEN String(body[r].sessionId)[k] ELSE "_"]

\* C14 as stated: two /generate requests upload under the same key only if
\* they have the same sanitized session id and arrived within the same
\* millisecond; requests that arrive in different milliseconds get distinct
\* keys under every interleaving.
C14_CollisionOnlyOnSameArrival ==
    \A r1, r2 \in Reqs :
        (r1 # r2 /\ Uploaded(r1) /\ Uploaded(r2) /\ puts[r1][1].Key = puts[r2][1].Key) =>
            /\ SafeId(r1) = SafeId(r2)
            /\ times[r1].arrived = times[r2].arrived

\* C14 amended: two /generate requests upload under the same key exactly when
\* they have the same sanitized session id and built their keys (line 144,
\* once the image bytes were there) within the same millisecond.
C14_CollisionIffSameKeyTime ==
    \A r1, r2 \in Reqs :
        (r1 # r2 /\ Uploaded(r1) /\ Uploaded(r2)) =>
            ((puts[r1][1].Key = puts[r2][1].Key) <=>
                (SafeId(r1) = SafeId(r2) /\ times[r1].keyed = times[r2].keyed))

\* Two requests with different session ids that arrived in different
\* milliseconds were both stored under one key.
C14_Witness ==
    \E r1, r2 \in Reqs :
        /\ r1 # r2
        /\ Uploaded(r1) /\ Uploaded(r2)
        /\ body[r1].sessionId # body[r2].sessionId
        /\ times[r1].arrived # times[r2].arrived
        /\ puts[r1][1].Key = puts[r2][1].Key
        /\ puts[r1][1].outcome = "stored" /\ puts[r2][1].outcome = "stored"

\* Everything the handler of one request holds or has caused.
Own(r) == <<pc[r], body[r], frame[r], opCalls[r], opLog[r], timers[r], fetches[r],
            buffer[r], safeSession[r], filename[r], puts[r], responses[r], times[r]>>

RECURSIVE LastFailure(_)
\* The error of the latest failed invocation in a log of outcomes.
LastFailure(log) ==
    IF log = <<>> THEN NoError
    ELSE IF ~Last(log).ok THEN Last(log).error
    ELSE LastFailure(SubSeq(log, 1, Len(log) - 1))

\* C15: concurrent /generate requests share no mutable state: under every
\* interleaving of two requests, a step of one leaves everything of the
\* other untouched (so a failure of one never changes the attempts, the
\* uploaded bytes or the outcome of the other), and each request's attempt
\* counter, last error, image buffer, key and response follow from its own
\* body and its own collaborator results.
C15_RequestsIndependent ==
    /\ [][\A r1, r2 \in Reqs : (r1 # r2 /\ Own(r1)' # Own(r1)) => Own(r2)' = Own(r2)]_vars
    /\ [](\A r \in Reqs :
            /\ opCalls[r] = Len(opLog[r]) + (IF frame[r].state = "calling" THEN 1 ELSE 0)
            /\ frame[r].lastErr = LastFailure(opLog[r])
            /\ frame[r].i = Len(timers[r]) - (IF frame[r].state = "sleeping" THEN 1 ELSE 0)
            /\ BytesAvailable(r) =>
                  buffer[r] = (IF Inline(r) THEN BufferFromBase64(FirstEntry(r).b64_json.s)
                                            ELSE Last(fetches[r]).data)
            /\ Uploaded(r) =>
                  /\ filename[r] = SafeId(r) \o <<"-">> \o Digits(times[r].keyed) \o PngExt
                  /\ puts[r][1].Body = buffer[r]
            /\ pc[r] = "responded" =>
                  \/ /\ Succeeded(r)
                     /\ puts[r][1].outcome = "stored"
                     /\ responses[r][1].key = filename[r]
                  \/ Answered500(r, Cause(r)))

\* One request ran out of provider attempts and was answered 500 while the
\* other, in flight at the same time, was answered 200.
C15_Witness ==
    \E r1, r2 \in Reqs :
        /\ r1 # r2
        /\ frame[r1].state = "thrown"
        /\ pc[r1] = "responded"
        /\ responses[r1][1].status = 500
        /\ opCalls[r1] = GenerateAttempts
        /\ Succeeded(r2)
        /\ opCalls[r2] = 1
        /\ times[r2].arrived >= times[r1].arrived
        /\ times[r2].arrived > 0

RECURSIVE Sum(_)
Sum(s) == IF s = <<>> THEN 0 ELSE Head(s) + Sum(Tail(s))

AllFailed(r) ==
    /\ Len(opLog[r]) = frame[r].attempts
    /\ \A k \in 1..Len(opLog[r]) : ~opLog[r][k].ok

\* C16: the delays awaited by one retry call never add up to more than
\* backoffMs * (2^attempts - 1), whatever the operation does, and add up to
\* exactly that when every attempt fails (4900 ms for 3 attempts at 700 ms).
C16_TotalBackoffBounded ==
    \A r \in Reqs :
        LET worst == frame[r].backoffMs * ((2 ^ frame[r].attempts) - 1)
        IN  /\ Sum(timers[r]) <= worst
            /\ AllFailed(r) => Sum(timers[r]) = worst
            /\ (AllFailed(r) /\ frame[r].attempts = 3 /\ frame[r].backoffMs = 700) =>
                  Sum(timers[r]) = 4900

\* retry(fn, 3, 700) threw after three failures and 4900 ms of delays.
C16_Witness ==
    \E r \in Reqs :
        /\ frame[r].state = "thrown"
        /\ frame[r].attempts = 3
        /\ frame[r].backoffMs = 700
        /\ Len(opLog[r]) = 3
        /\ Sum(timers[r]) = 4900

Terminal(r) ==
    /\ pc[r] = "responded"
    /\ Len(responses[r]) = 1
    /\ responses[r][1].status \in {200, 400, 500}

\* C17: when every provider call, fetch, put and backoff timer eventually
\* returns or fails, every /generate request that arrived eventually has its
\* response (200, 400 or 500); none stays in the retry loop for ever.
C17_EveryRequestAnswered == \A r \in Reqs : (pc[r] # "idle") ~> Terminal(r)

\* A request left the retry loop after three failed attempts and three
\* delays and was answered 500.
C17_Witness ==
    \E r \in Reqs :
        /\ Terminal(r)
        /\ frame[r].state = "thrown"
        /\ Len(opLog[r]) = GenerateAttempts
        /\ Len(timers[r]) = GenerateAttempts
        /\ responses[r][1].status = 500

Stored(r) == puts[r] # <<>> /\ Last(puts[r]).outcome = "stored"

\* C18: once the put of a /generate request has succeeded the request is
\* answered 200 {url, key}; a 500 response means that no object was stored
\* for the request, whatever the configuration (an unset base URL included).
C18_StoredThenOk ==
    \A r \in Reqs :
        /\ Stored(r) => Succeeded(r)
        /\ (responses[r] # <<>> /\ responses[r][1].status = 500) => ~Stored(r)

====
